---- MODULE Spec2Model ----
(***************************************************************************)
(* A model of src/main.py: the PII anonymizer (EncryptionManager,          *)
(* DatabaseManager, Anonymizer.process_document / decrypt_document).       *)
(*                                                                         *)
(* Text is a sequence of one-character strings.  Offsets are 0-based as in *)
(* the Python source: text[a:b] is Slice(text, a, b).                      *)
(*                                                                         *)
(* Scaling.  The alphabet is "a" (a letter), "1" and "2" (digits) and " "  *)
(* (a character that is neither alphanumeric nor a word character).  The   *)
(* element "[" stands for the five characters "[ENC:" and "#" for the mask *)
(* character.  A uuid4()[:8] id is one opaque element ("i1", "i2", ...)    *)
(* that counts as a run of hex digits and never occurs in an input text;   *)
(* a new id is either one already in use (a collision) or the first unused *)
(* one, ids being interchangeable.  The pattern registry keeps one         *)
(* unanchored pattern and two anchored ones, with the digit counts scaled  *)
(* down; see patterns.                                                     *)
(***************************************************************************)
EXTENDS Integers, Sequences, FiniteSets, TLC

\* ------------------------------------------------------------------ bounds
MaxDocLen == 3   \* characters in the input document, paragraph breaks included
MaxIds    == 2   \* distinct values uuid4()[:8] can take
MaxCalls  == 1   \* process_document calls
MaxTokens == 3   \* tokens of a text unit, when _extract_with_nlp is run on its own
MaxLineLen == 4  \* characters of the document when it is one paragraph
MaxManagers == 2 \* EncryptionManager() calls running side by side

\* ------------------------------------------------------------------- text
Letters    == {"a"}
Digits     == {"1", "2"}
DocChars   == {"a", "1", " "}
ParaBreak  == "\n"

IsAlnum(c) == c \in Letters \cup Digits
IsWord(c)  == c \in Letters \cup Digits
IsSpace(c) == c = " "

Max(S) == CHOOSE x \in S : \A y \in S : y <= x
Min(a, b) == IF a <= b THEN a ELSE b

\* text[a:b] with 0 <= a, b (Python clamps b to len and yields "" when a >= b)
Slice(text, a, b) == SubSeq(text, a + 1, Min(b, Len(text)))
\* text[i]
At(text, i) == text[i + 1]

\* str.find: the first 0-based index where sub occurs in text, or -1
Find(text, sub) ==
  LET hits == {i \in 0..(Len(text) - Len(sub)) : Slice(text, i, i + Len(sub)) = sub}
  IN IF hits = {} THEN -1 ELSE CHOOSE i \in hits : \A j \in hits : i <= j

\* str.strip() of whitespace gives the empty string
IsBlank(text) == \A i \in 1..Len(text) : IsSpace(text[i])

\* text[:pos] + value + text[end_pos:]
Splice(text, pos, end_pos, value) ==
  Slice(text, 0, pos) \o value \o Slice(text, end_pos, Len(text))

\* ------------------------------------------------- find_entities_by_patterns
\* \b at 0-based position i of text
WordBoundary(text, i) ==
  LET before == i > 0 /\ IsWord(At(text, i - 1))
      after  == i < Len(text) /\ IsWord(At(text, i))
  IN before # after

\* A pattern is [type, lb, atoms, rb]: \b at the start if lb, a sequence of
\* greedy atoms [cls, min, max] (cls{min,max}; max = -1 for unbounded), \b at
\* the end if rb.
Atom(cls, lo, hi) == [cls |-> cls, min |-> lo, max |-> hi]

patterns ==
  << [type |-> "ADDR", lb |-> FALSE, rb |-> FALSE,
      atoms |-> <<Atom({"a"}, 1, 1), Atom({" "}, 0, -1), Atom({"1"}, 1, -1)>>],
     [type |-> "INN", lb |-> TRUE, rb |-> TRUE,
      atoms |-> <<Atom({"a"}, 1, 1), Atom({" "}, 0, -1), Atom({"1"}, 1, 2)>>],
     [type |-> "INN", lb |-> TRUE, rb |-> TRUE,
      atoms |-> <<Atom({"1"}, 1, 2)>>] >>

\* The positions where atoms[k..] can end when matched from position p.
RECURSIVE AtomEnds(_, _, _, _)
AtomEnds(atoms, k, text, p) ==
  IF k > Len(atoms) THEN {p}
  ELSE LET a    == atoms[k]
           room == Len(text) - p
           hi   == IF a.max = -1 THEN room ELSE Min(a.max, room)
           ns   == {n \in a.min..hi : \A j \in 0..(n - 1) : At(text, p + j) \in a.cls}
       IN UNION {AtomEnds(atoms, k + 1, text, p + n) : n \in ns}

\* The ends of the matches of pattern p that start at s.
MatchEnds(p, text, s) ==
  IF p.lb /\ ~WordBoundary(text, s) THEN {}
  ELSE {e \in AtomEnds(p.atoms, 1, text, s) : e > s /\ (p.rb => WordBoundary(text, e))}

\* re.finditer: leftmost, greedy, non-overlapping matches, as spans <<start, end>>
RECURSIVE FindIter(_, _, _)
FindIter(p, text, s) ==
  IF s >= Len(text) THEN <<>>
  ELSE LET ends == MatchEnds(p, text, s)
       IN IF ends = {} THEN FindIter(p, text, s + 1)
          ELSE <<(<<s, Max(ends)>>)>> \o FindIter(p, text, Max(ends))

\* a boundary test that lets every match through
BoundaryAny(text, start, end) == TRUE

\* lines 240-243: a match next to an alphanumeric character is dropped
BoundaryOk(text, start, end) ==
  /\ ~(start > 0 /\ IsAlnum(At(text, start - 1)))
  /\ ~(end < Len(text) /\ IsAlnum(At(text, end)))

RegexEntity(text, type, span) ==
  [text |-> Slice(text, span[1], span[2]), type |-> type,
   start |-> span[1], end |-> span[2]]

RECURSIVE KeepMatches(_, _, _)
KeepMatches(text, type, spans) ==
  IF spans = <<>> THEN <<>>
  ELSE LET sp == Head(spans)
       IN (IF BoundaryOk(text, sp[1], sp[2])
           THEN <<RegexEntity(text, type, sp)>> ELSE <<>>)
          \o KeepMatches(text, type, Tail(spans))

RECURSIVE find_entities_from(_, _)
find_entities_from(text, k) ==
  IF k > Len(patterns) THEN <<>>
  ELSE KeepMatches(text, patterns[k].type, FindIter(patterns[k], text, 0))
       \o find_entities_from(text, k + 1)

find_entities_by_patterns(text) == find_entities_from(text, 1)

\* --------------------------------------------------------- _extract_with_nlp
\* A token is a sequence of characters; the element "##" at its head is the
\* sub-word continuation marker and <<"[CLS]">>, <<"[SEP]">>, <<"[PAD]">> are
\* the special tokens.  A label is <<"O">>, <<"B", type>> or <<"I", type>>.
CharsPerToken == 5

SpecialTokens == {<<"[CLS]">>, <<"[SEP]">>, <<"[PAD]">>}

RECURSIVE Strip(_)
Strip(text) ==
  IF text = <<>> THEN text
  ELSE IF IsSpace(Head(text)) THEN Strip(Tail(text))
  ELSE IF IsSpace(text[Len(text)]) THEN Strip(SubSeq(text, 1, Len(text) - 1))
  ELSE text

\* text.replace('▁', ' '), the marker written "_"
ReplaceMarker(text) == [i \in 1..Len(text) |-> IF text[i] = "_" THEN " " ELSE text[i]]

RECURSIVE JoinTokens(_, _)
JoinTokens(tokens, text) ==
  IF tokens = <<>> THEN text
  ELSE LET token == Head(tokens)
       IN IF token # <<>> /\ Head(token) = "##"
          THEN JoinTokens(Tail(tokens), text \o Tail(token))
          ELSE JoinTokens(Tail(tokens),
                          (IF text # <<>> THEN text \o <<" ">> ELSE text) \o token)

_tokens_to_text(tokens) == Strip(ReplaceMarker(JoinTokens(tokens, <<>>)))

min_lengths(entity_type) ==
  CASE entity_type = "PER"   -> 5
    [] entity_type = "ADDR"  -> 10
    [] entity_type = "DATE"  -> 4
    [] entity_type = "PASS"  -> 8
    [] entity_type = "INN"   -> 10
    [] entity_type = "PHONE" -> 10
    [] entity_type = "CASE"  -> 3
    [] OTHER                 -> 3

IsUpper(c) == c = "A"

\* text.split(): the first characters of the whitespace-separated words
WordStarts(text) ==
  {text[i] : i \in {j \in 1..Len(text) :
                      ~IsSpace(text[j]) /\ (j = 1 \/ IsSpace(text[j - 1]))}}

_is_valid_entity(text, entity_type) ==
  /\ Len(text) >= 2
  /\ Len(text) >= min_lengths(entity_type)
  /\ entity_type = "PER" =>
       /\ \E i \in 1..Len(text) : text[i] = " "
       /\ \A c \in WordStarts(text) : IsUpper(c)

NoType == "None"

\* lines 282-289, 300-307, 312-319: the open run becomes an entity if valid
CloseRun(st, end) ==
  IF st.current_entity # <<>>
     /\ _is_valid_entity(_tokens_to_text(st.current_entity), st.current_type)
  THEN Append(st.entities,
              [text |-> _tokens_to_text(st.current_entity), type |-> st.current_type,
               start |-> st.current_start, end |-> end])
  ELSE st.entities

\* one iteration of the loop of lines 276-309, i the 0-based token index
NlpStep(st, i, token, label) ==
  IF token \in SpecialTokens THEN st
  ELSE IF label[1] = "B"
  THEN [entities |-> CloseRun(st, i), current_entity |-> <<token>>,
        current_type |-> label[2], current_start |-> i]
  ELSE IF label[1] = "I" /\ st.current_type = label[2]
  THEN [st EXCEPT !.current_entity = Append(@, token)]
  ELSE IF label[1] = "O"
  THEN [st EXCEPT !.entities = CloseRun(st, i), !.current_entity = <<>>,
                  !.current_type = NoType]
  ELSE st

RECURSIVE NlpLoop(_, _, _, _)
NlpLoop(st, i, tokens, labels) ==
  IF i >= Len(tokens) THEN st
  ELSE NlpLoop(NlpStep(st, i, tokens[i + 1], labels[i + 1]), i + 1, tokens, labels)

\* lines 271-319: the entities of the token runs, offsets in tokens
NoRun == [entities |-> <<>>, current_entity |-> <<>>,
          current_type |-> NoType, current_start |-> 0]

TokenRuns(tokens, labels) == CloseRun(NlpLoop(NoRun, 0, tokens, labels), Len(tokens))

\* lines 321-323
WithCharOffsets(entity, text) ==
  [text |-> entity.text, type |-> entity.type, start |-> entity.start, end |-> entity.end,
   start_char |-> Min(entity.start * CharsPerToken, Len(text)),
   end_char   |-> Min(entity.end * CharsPerToken, Len(text))]

_extract_with_nlp(text, tokens, labels) ==
  LET es == TokenRuns(tokens, labels)
  IN [k \in 1..Len(es) |-> WithCharOffsets(es[k], text)]


\* ------------------------------------------------------------ DataGenerator
\* The generators draw at random (secrets); each is the set of values it can
\* return, scaled: a tax id is two digits, an address a letter, a space and a
\* digit.
DigitStrings(n) == [1..n -> Digits]

generate_fio         == {<<"A", "a", " ", "A", "a">>, <<"A", "a", " ", "A", "a", "a">>}
generate_address     == {<<"a", " ", d>> : d \in Digits}
generate_date        == {<<d, ".", d>> : d \in Digits}
generate_passport    == {<<d, " ", d>> : d \in Digits}
generate_inn         == DigitStrings(1)
generate_phone       == {<<"+", d, d>> : d \in Digits}
generate_case_number == {<<d, "/", d>> : d \in Digits}

\* a _generate_replacement that writes the bare category for one it has no
\* generator for
_generate_replacement_unbracketed(entity_type) ==
  CASE entity_type = "PER"   -> generate_fio
    [] entity_type = "ADDR"  -> generate_address
    [] entity_type = "DATE"  -> generate_date
    [] entity_type = "PASS"  -> generate_passport
    [] entity_type = "INN"   -> generate_inn
    [] entity_type = "PHONE" -> generate_phone
    [] entity_type = "CASE"  -> generate_case_number
    [] OTHER                 -> {<<entity_type>>}

\* lines 437-452: the values _generate_replacement(entity_type) can return
_generate_replacement(entity_type) ==
  CASE entity_type = "PER"   -> generate_fio
    [] entity_type = "ADDR"  -> generate_address
    [] entity_type = "DATE"  -> generate_date
    [] entity_type = "PASS"  -> generate_passport
    [] entity_type = "INN"   -> generate_inn
    [] entity_type = "PHONE" -> generate_phone
    [] entity_type = "CASE"  -> generate_case_number
    [] OTHER                 -> {<<"[", entity_type, "]">>}

\* -------------------------------------------------------- EncryptionManager
KeyNames == <<"k1", "k2", "k3">>
Keys     == {KeyNames[i] : i \in DOMAIN KeyNames}
NoKey    == "absent"
DecryptionError == <<"InvalidToken">>

\* a load_or_generate_key that does not look for the key file
generate_key_always(file, generated) == [key |-> generated, file |-> generated]

\* lines 86-94: the key returned and the key file afterwards, generated being
\* what Fernet.generate_key() would return
load_or_generate_key(file, generated) ==
  IF file # NoKey THEN [key |-> file, file |-> file]
  ELSE [key |-> generated, file |-> generated]

\* bytes.hex() and bytes.fromhex()
Hex(token) == <<"hex", token>>
FromHex(h) == h[2]

\* line 97: Fernet.encrypt(data).hex()
encrypt(key, data) == Hex([key |-> key, data |-> data])

\* line 100: Fernet.decrypt authenticates the token under the key
decrypt(key, encrypted_hex) ==
  LET token == FromHex(encrypted_hex)
  IN IF token.key = key THEN token.data ELSE DecryptionError


\* ---------------------------------------------------------- DatabaseManager
\* A table is the set of its rows.  execute() raises on a closed connection
\* (sqlite3.ProgrammingError) and INSERT raises on a primary key that is
\* already there (sqlite3.IntegrityError); SQLite does not enforce the
\* FOREIGN KEY clauses (no PRAGMA foreign_keys).
HasId(table, id) == \E r \in table : r.id = id

\* lines 148-154: INSERT OR REPLACE INTO documents
save_document(table, doc_id) == {r \in table : r.id # doc_id} \cup {[id |-> doc_id]}

\* a save_encrypted_mapping that keeps one row per document
save_encrypted_mapping_per_document(table, entity_id, doc_id, encrypted_text, entity_type, start, end) ==
  {r \in table : r.document_id # doc_id}
    \cup {[id |-> entity_id, document_id |-> doc_id, encrypted_text |-> encrypted_text,
            entity_type |-> entity_type, position_start |-> start, position_end |-> end]}

\* lines 156-162: INSERT INTO encrypted_data
save_encrypted_mapping(table, entity_id, doc_id, encrypted_text, entity_type, start, end) ==
  table \cup {[id |-> entity_id, document_id |-> doc_id, encrypted_text |-> encrypted_text,
               entity_type |-> entity_type, position_start |-> start, position_end |-> end]}

\* a save_replacement whose row never reaches the table
save_replacement_dropped(table, entity_id, doc_id, original, replacement, entity_type, start, end) ==
  table

\* lines 164-170: INSERT INTO replacements
save_replacement(table, entity_id, doc_id, original, replacement, entity_type, start, end) ==
  table \cup {[id |-> entity_id, document_id |-> doc_id, original_text |-> original,
               replacement_text |-> replacement, entity_type |-> entity_type,
               position_start |-> start, position_end |-> end]}

\* the INSERT of either mapping table goes through
CanInsert(conn, table, entity_id) == conn = "open" /\ ~HasId(table, entity_id)

\* lines 172-175: the rows SELECT returns (fetchone takes the one there is)
get_entity_by_id(table, entity_id) == {r \in table : r.id = entity_id}

\* ------------------------------------------------------------------ inputs
\* uuid4()[:8]: the ids there are, and the ones a call can draw when the ids
\* of used are in use
IdNames == <<"i1", "i2", "i3", "i4", "i5", "i6">>
Ids     == {<<IdNames[i]>> : i \in 1..MaxIds}

FirstUnused(names, used) ==
  LET free == {i \in DOMAIN names : names[i] \notin used}
  IN IF free = {} THEN {} ELSE {names[CHOOSE i \in free : \A j \in free : i <= j]}

uuid4(used) ==
  (Ids \cap used) \cup {<<n>> : n \in FirstUnused(SubSeq(IdNames, 1, MaxIds), {u[1] : u \in used})}

\* Fernet.generate_key(): a key no one holds yet
generate_key(used) ==
  LET fresh == FirstUnused(KeyNames, used) IN IF fresh = {} THEN Keys ELSE fresh

\* the input document: every string of at most MaxDocLen characters and
\* paragraph breaks, cut into its paragraphs
DocStrings == UNION {[1..n -> DocChars \cup {ParaBreak}] : n \in 0..MaxDocLen}

RECURSIVE SplitParas(_, _)
SplitParas(str, para) ==
  IF str = <<>> THEN <<para>>
  ELSE IF Head(str) = ParaBreak THEN <<para>> \o SplitParas(Tail(str), <<>>)
  ELSE SplitParas(Tail(str), Append(para, Head(str)))

Documents == {SplitParas(str, <<>>) : str \in DocStrings}

\* The tokenizer and the classifier are external.  The tokenizer is taken to
\* split at white space and to frame the tokens with [CLS] and [SEP]; the
\* classifier may label each token in any way.
RECURSIVE Words(_, _)
Words(text, word) ==
  IF text = <<>> THEN (IF word = <<>> THEN <<>> ELSE <<word>>)
  ELSE IF IsSpace(Head(text))
  THEN (IF word = <<>> THEN <<>> ELSE <<word>>) \o Words(Tail(text), <<>>)
  ELSE Words(Tail(text), Append(word, Head(text)))

Tokenize(text) == <<(<<"[CLS]">>)>> \o Words(text, <<>>) \o <<(<<"[SEP]">>)>>

NlpLabels == {<<"O">>, <<"B", "INN">>, <<"B", "ORG">>, <<"I", "ORG">>}

Labellings(tokens) == [1..Len(tokens) -> NlpLabels]

\* lines 255-259: the entity lists extract_entities can return for text
extract_entities(use_nlp_model, text) ==
  IF use_nlp_model
  THEN {_extract_with_nlp(text, Tokenize(text), labels) : labels \in Labellings(Tokenize(text))}
  ELSE {find_entities_by_patterns(text)}

\* --------------------------------------------------------------- Anonymizer
VARIABLES
  doc,            \* the input document: its paragraphs' texts
  model_path,     \* whether MODEL_PATH exists
  key_file,       \* encryption.key: NoKey or the key stored
  documents,      \* table documents
  encrypted_data, \* table encrypted_data
  replacements,   \* table replacements
  anon,           \* the Anonymizer in use, or NoAnon
  pc,             \* where process_document stands: idle, para, entity
  call,           \* the locals of the process_document call
  output,         \* the output document saved last, or NoDoc
  output_mode,    \* the mode of the Anonymizer that saved it
  decrypted,      \* the document decrypt_document saved last, or NoDoc
  result,         \* how the last call ended
  calls,          \* process_document calls started
  nlp,            \* a run of _extract_with_nlp on its own: input, position, run state
  managers        \* EncryptionManager() calls running side by side: position, key held

vars == <<doc, model_path, key_file, documents, encrypted_data, replacements, anon, pc, call,
          output, output_mode, decrypted, result, calls, nlp, managers>>

NoAnon == [mode |-> "none"]
NoDoc  == << <<"missing">> >>
Modes  == {"replace", "encrypt", "blur"}

NoCall == [doc_id |-> <<>>, para_idx |-> 0, paras |-> <<>>, text |-> <<>>, orig |-> <<>>,
           entities |-> <<>>, sorted_entities |-> <<>>, log |-> <<>>]

NoManagers == <<>>

NoNlp == [text |-> <<>>, tokens |-> <<>>, labels |-> <<>>, i |-> 0, st |-> NoRun,
          entities |-> <<>>, returned |-> TRUE]

Init ==
  /\ doc \in Documents
  /\ model_path \in BOOLEAN
  /\ key_file = NoKey
  /\ documents = {}
  /\ encrypted_data = {}
  /\ replacements = {}
  /\ anon = NoAnon
  /\ pc = "idle"
  /\ call = NoCall
  /\ output = NoDoc
  /\ output_mode = "none"
  /\ decrypted = NoDoc
  /\ result = "none"
  /\ calls = 0
  /\ nlp = NoNlp
  /\ managers = NoManagers

\* the ids and keys in use
UsedEntityIds == {r.id : r \in encrypted_data \cup replacements}
UsedDocIds    == {r.id : r \in documents}
                   \cup {r.document_id : r \in encrypted_data \cup replacements}
UsedKeys      == {key_file} \cup {FromHex(r.encrypted_text).key : r \in encrypted_data}

\* lines 181-201: Anonymizer(mode); the model directory is there or not
NewAnonymizer(mode, generated) ==
  /\ pc = "idle"
  /\ generated \in generate_key(UsedKeys)
  /\ LET k == load_or_generate_key(key_file, generated)
     IN /\ key_file' = IF mode = "encrypt" THEN k.file ELSE key_file
        /\ anon' = [mode |-> mode, use_nlp_model |-> model_path,
                    key |-> IF mode = "encrypt" THEN k.key ELSE NoKey,
                    conn |-> "open", found |-> 0, processed |-> 0]
  /\ call' = NoCall
  /\ decrypted' = NoDoc
  /\ result' = "none"
  /\ UNCHANGED <<managers, nlp, doc, model_path, documents, encrypted_data, replacements, pc, output,
                 output_mode, calls>>

\* lines 366-367
ProcessStart(doc_id) ==
  /\ pc = "idle"
  /\ anon # NoAnon
  /\ calls < MaxCalls
  /\ doc_id \in uuid4(UsedDocIds)
  /\ calls' = calls + 1
  /\ pc' = "para"
  /\ call' = [NoCall EXCEPT !.doc_id = doc_id, !.para_idx = 1, !.paras = doc]
  /\ result' = "none"
  /\ UNCHANGED <<managers, nlp, doc, model_path, key_file, documents, encrypted_data, replacements, anon, output,
                 output_mode, decrypted>>

\* line 382: sorted(entities, key=..., reverse=True), stable
SortKey(entity, text) ==
  IF "start_char" \in DOMAIN entity THEN entity.start_char ELSE Find(text, entity.text)

RECURSIVE InsertDesc(_, _, _)
InsertDesc(sorted, entity, text) ==
  IF sorted = <<>> THEN <<entity>>
  ELSE IF SortKey(Head(sorted), text) >= SortKey(entity, text)
  THEN <<Head(sorted)>> \o InsertDesc(Tail(sorted), entity, text)
  ELSE <<entity>> \o sorted

RECURSIVE SortedDesc(_, _, _)
SortedDesc(entities, k, text) ==
  IF k = 0 THEN <<>>
  ELSE InsertDesc(SortedDesc(entities, k - 1, text), entities[k], text)

\* lines 371-382: the head of the paragraph loop
ProcessPara ==
  /\ pc = "para"
  /\ call.para_idx <= Len(call.paras)
  /\ LET text == call.paras[call.para_idx]
     IN IF IsBlank(text)
        THEN /\ call' = [call EXCEPT !.para_idx = @ + 1]
             /\ UNCHANGED <<anon, pc>>
        ELSE \E entities \in extract_entities(anon.use_nlp_model, text) :
               /\ anon' = [anon EXCEPT !.found = @ + Len(entities)]
               /\ IF entities = <<>>
                  THEN /\ call' = [call EXCEPT !.para_idx = @ + 1, !.text = text,
                                               !.orig = text, !.entities = entities,
                                               !.sorted_entities = <<>>]
                       /\ pc' = pc
                  ELSE /\ call' = [call EXCEPT !.text = text, !.orig = text,
                                      !.entities = entities,
                                      !.sorted_entities =
                                         SortedDesc(entities, Len(entities), text)]
                       /\ pc' = "entity"
  /\ UNCHANGED <<managers, nlp, doc, model_path, key_file, documents, encrypted_data, replacements, output,
                 output_mode, decrypted, result, calls>>

\* lines 388-393
EntityPos(entity, text) ==
  IF "start_char" \in DOMAIN entity THEN entity.start_char ELSE Find(text, entity.text)

EntityEnd(entity, text) ==
  IF "start_char" \in DOMAIN entity THEN entity.end_char
  ELSE Find(text, entity.text) + Len(entity.text)

\* lines 406-407, 418-419, 423-424: the locals after the entity at the head of
\* sorted_entities was spliced; log lists the call's splices
Spliced(c, pos, end_pos, value, entity_id) ==
  [c EXCEPT !.text = Splice(c.text, pos, end_pos, value),
            !.sorted_entities = Tail(@),
            !.log = Append(@, [para |-> c.para_idx, entity |-> Head(c.sorted_entities),
                               pos |-> pos, end_pos |-> end_pos, value |-> value,
                               replaced |-> Slice(c.text, pos, end_pos),
                               id |-> entity_id])]

\* a skip that counts the entity it passes over as processed
ProcessEntitySkipCounted ==
  /\ pc = "entity"
  /\ call.sorted_entities # <<>>
  /\ EntityPos(Head(call.sorted_entities), call.text) = -1
  /\ call' = [call EXCEPT !.sorted_entities = Tail(@)]
  /\ anon' = [anon EXCEPT !.processed = @ + 1]
  /\ UNCHANGED <<managers, nlp, doc, model_path, key_file, documents, encrypted_data, replacements, pc,
                 output, output_mode, decrypted, result, calls>>

\* lines 395-396
ProcessEntitySkip ==
  /\ pc = "entity"
  /\ call.sorted_entities # <<>>
  /\ EntityPos(Head(call.sorted_entities), call.text) = -1
  /\ call' = [call EXCEPT !.sorted_entities = Tail(@)]
  /\ UNCHANGED <<managers, nlp, doc, model_path, key_file, documents, encrypted_data, replacements, anon, pc,
                 output, output_mode, decrypted, result, calls>>

\* a failed write that is swallowed: the entity is spliced all the same
SplicedDespiteFailure(c) ==
  LET entity == Head(c.sorted_entities)
  IN [c EXCEPT !.text = Splice(c.text, EntityPos(entity, c.text),
                               EntityEnd(entity, c.text),
                               [i \in 1..Len(entity.text) |-> "#"]),
               !.sorted_entities = Tail(@)]

\* how process_document ends when a ledger write raises: the exception leaves
\* the call, nothing after the failing statement runs
Raised(c) == c

\* lines 398-407
ProcessEntityReplace(replacement, entity_id) ==
  /\ pc = "entity"
  /\ call.sorted_entities # <<>>
  /\ anon.mode = "replace"
  /\ LET entity  == Head(call.sorted_entities)
         pos     == EntityPos(entity, call.text)
         end_pos == EntityEnd(entity, call.text)
     IN /\ pos # -1
        /\ replacement \in _generate_replacement(entity.type)
        /\ entity_id \in uuid4(UsedEntityIds)
        /\ IF CanInsert(anon.conn, replacements, entity_id)
           THEN /\ replacements' = save_replacement(replacements, entity_id, call.doc_id,
                                     entity.text, replacement, entity.type, pos, end_pos)
                /\ call' = Spliced(call, pos, end_pos, replacement, entity_id)
                /\ anon' = [anon EXCEPT !.processed = @ + 1]
                /\ UNCHANGED <<pc, result>>
           ELSE /\ call' = Raised(call)
                /\ pc' = "idle"
                /\ result' = "process_raised"
                /\ UNCHANGED <<replacements, anon>>
  /\ UNCHANGED <<managers, nlp, doc, model_path, key_file, documents, encrypted_data, output, output_mode,
                 decrypted, calls>>

Placeholder(entity_id) == <<"[ENC:">> \o entity_id \o <<"]">>

\* an encrypt branch that also files the original as the replace branch does
ProcessEntityEncryptKeepingOriginal(entity_id) ==
  /\ pc = "entity"
  /\ call.sorted_entities # <<>>
  /\ anon.mode = "encrypt"
  /\ LET entity    == Head(call.sorted_entities)
         pos       == EntityPos(entity, call.text)
         end_pos   == EntityEnd(entity, call.text)
         encrypted == encrypt(anon.key, entity.text)
     IN /\ pos # -1
        /\ entity_id \in uuid4(UsedEntityIds)
        /\ CanInsert(anon.conn, encrypted_data, entity_id)
        /\ encrypted_data' = save_encrypted_mapping(encrypted_data, entity_id,
                                call.doc_id, encrypted, entity.type, pos, end_pos)
        /\ replacements' = save_replacement(replacements, entity_id, call.doc_id,
                              entity.text, Placeholder(entity_id), entity.type, pos, end_pos)
        /\ call' = Spliced(call, pos, end_pos, Placeholder(entity_id), entity_id)
        /\ anon' = [anon EXCEPT !.processed = @ + 1]
  /\ UNCHANGED <<managers, nlp, doc, model_path, key_file, documents, output, output_mode, decrypted, pc,
                 result, calls>>

\* lines 409-419
ProcessEntityEncrypt(entity_id) ==
  /\ pc = "entity"
  /\ call.sorted_entities # <<>>
  /\ anon.mode = "encrypt"
  /\ LET entity    == Head(call.sorted_entities)
         pos       == EntityPos(entity, call.text)
         end_pos   == EntityEnd(entity, call.text)
         encrypted == encrypt(anon.key, entity.text)
     IN /\ pos # -1
        /\ entity_id \in uuid4(UsedEntityIds)
        /\ IF CanInsert(anon.conn, encrypted_data, entity_id)
           THEN /\ encrypted_data' = save_encrypted_mapping(encrypted_data, entity_id,
                                       call.doc_id, encrypted, entity.type, pos, end_pos)
                /\ call' = Spliced(call, pos, end_pos, Placeholder(entity_id), entity_id)
                /\ anon' = [anon EXCEPT !.processed = @ + 1]
                /\ UNCHANGED <<pc, result>>
           ELSE /\ call' = Raised(call)
                /\ pc' = "idle"
                /\ result' = "process_raised"
                /\ UNCHANGED <<encrypted_data, anon>>
  /\ UNCHANGED <<managers, nlp, doc, model_path, key_file, documents, replacements, output, output_mode,
                 decrypted, calls>>

Mask(original) == [i \in 1..Len(original) |-> "#"]

\* a blur branch that files the original as the replace branch does
ProcessEntityBlurRecorded ==
  /\ pc = "entity"
  /\ call.sorted_entities # <<>>
  /\ anon.mode = "blur"
  /\ LET entity  == Head(call.sorted_entities)
         pos     == EntityPos(entity, call.text)
         end_pos == EntityEnd(entity, call.text)
     IN /\ pos # -1
        /\ \E entity_id \in uuid4(UsedEntityIds) :
             /\ CanInsert(anon.conn, replacements, entity_id)
             /\ replacements' = save_replacement(replacements, entity_id, call.doc_id,
                                   entity.text, Mask(entity.text), entity.type, pos, end_pos)
        /\ call' = Spliced(call, pos, end_pos, Mask(entity.text), <<>>)
        /\ anon' = [anon EXCEPT !.processed = @ + 1]
  /\ UNCHANGED <<managers, nlp, doc, model_path, key_file, documents, encrypted_data, pc, output,
                 output_mode, decrypted, result, calls>>

\* lines 421-424
ProcessEntityBlur ==
  /\ pc = "entity"
  /\ call.sorted_entities # <<>>
  /\ anon.mode = "blur"
  /\ LET entity  == Head(call.sorted_entities)
         pos     == EntityPos(entity, call.text)
         end_pos == EntityEnd(entity, call.text)
     IN /\ pos # -1
        /\ call' = Spliced(call, pos, end_pos, Mask(entity.text), <<>>)
        /\ anon' = [anon EXCEPT !.processed = @ + 1]
  /\ UNCHANGED <<managers, nlp, doc, model_path, key_file, documents, encrypted_data, replacements, pc, output,
                 output_mode, decrypted, result, calls>>

\* lines 426-428: the paragraph takes the rewritten text
ProcessParaEnd ==
  /\ pc = "entity"
  /\ call.sorted_entities = <<>>
  /\ call' = [call EXCEPT !.paras[call.para_idx] = call.text, !.para_idx = @ + 1]
  /\ pc' = "para"
  /\ UNCHANGED <<managers, nlp, doc, model_path, key_file, documents, encrypted_data, replacements, anon, output,
                 output_mode, decrypted, result, calls>>

\* lines 430-435: save_document, doc.save, close
ProcessFinish ==
  /\ pc = "para"
  /\ call.para_idx > Len(call.paras)
  /\ pc' = "idle"
  /\ call' = NoCall
  /\ IF anon.conn = "open"
     THEN /\ documents' = save_document(documents, call.doc_id)
          /\ output' = call.paras
          /\ output_mode' = anon.mode
          /\ anon' = [anon EXCEPT !.conn = "closed"]
          /\ result' = "process_returned"
     ELSE /\ result' = "process_raised"
          /\ UNCHANGED <<documents, output, output_mode, anon>>
  /\ UNCHANGED <<managers, nlp, doc, model_path, key_file, encrypted_data, replacements, decrypted, calls>>

\* ---------------------------------------------------------- decrypt_document
\* [a-f0-9]: the digits, the letter a, and an id, which is hex digits
IsHexDigit(c) == c \in Digits \cup Letters \cup {IdNames[i] : i \in DOMAIN IdNames}

\* the length of the run of hex digits of text from position p
RECURSIVE HexRun(_, _)
HexRun(text, p) ==
  IF p < Len(text) /\ IsHexDigit(At(text, p)) THEN 1 + HexRun(text, p + 1) ELSE 0

\* re.finditer(r'\[ENC:([a-f0-9]+)\]', text): group(1) of each match, in order
RECURSIVE ScanPlaceholders(_, _)
ScanPlaceholders(text, s) ==
  IF s >= Len(text) THEN <<>>
  ELSE LET n == HexRun(text, s + 1)
       IN IF At(text, s) = "[ENC:" /\ n >= 1 /\ s + 1 + n < Len(text)
             /\ At(text, s + 1 + n) = "]"
          THEN <<Slice(text, s + 1, s + 1 + n)>> \o ScanPlaceholders(text, s + n + 2)
          ELSE ScanPlaceholders(text, s + 1)

\* str.replace(old, new): every non-overlapping occurrence, left to right
RECURSIVE ReplaceAll(_, _, _)
ReplaceAll(text, old, new) ==
  IF Len(text) < Len(old) THEN text
  ELSE IF SubSeq(text, 1, Len(old)) = old
  THEN new \o ReplaceAll(SubSeq(text, Len(old) + 1, Len(text)), old, new)
  ELSE <<Head(text)>> \o ReplaceAll(Tail(text), old, new)

\* lines 468-475: one placeholder match
DecryptMatch(text, entity_id, table, key) ==
  LET entity_data == get_entity_by_id(table, entity_id)
  IN IF entity_data = {} THEN text
     ELSE LET row       == CHOOSE r \in entity_data : TRUE
              decrypted_text == decrypt(key, row.encrypted_text)
          IN IF decrypted_text = DecryptionError THEN text
             ELSE ReplaceAll(text, Placeholder(entity_id), decrypted_text)

\* lines 465-475: the loop over the matches found in the paragraph's text
RECURSIVE DecryptMatches(_, _, _, _)
DecryptMatches(text, ids, table, key) ==
  IF ids = <<>> THEN text
  ELSE DecryptMatches(DecryptMatch(text, Head(ids), table, key), Tail(ids), table, key)

DecryptPara(text, table, key) ==
  DecryptMatches(text, ScanPlaceholders(text, 0), table, key)

\* lines 454-482
DecryptDocument ==
  /\ pc = "idle"
  /\ anon # NoAnon
  /\ output # NoDoc
  /\ IF anon.mode # "encrypt"
     THEN /\ result' = "decrypt_false"
          /\ UNCHANGED decrypted
     ELSE IF anon.conn # "open"
             /\ \E i \in 1..Len(output) : ScanPlaceholders(output[i], 0) # <<>>
     THEN /\ result' = "decrypt_raised"
          /\ UNCHANGED decrypted
     ELSE /\ result' = "decrypt_returned"
          /\ decrypted' = [i \in 1..Len(output) |->
                             DecryptPara(output[i], encrypted_data, anon.key)]
  /\ UNCHANGED <<managers, nlp, doc, model_path, key_file, documents, encrypted_data, replacements, anon, pc, call,
                 output, output_mode, calls>>

\* ------------------------------------------------------------ specification
EntityTypes == {"PER", "ADDR", "DATE", "PASS", "INN", "PHONE", "CASE", "ORG"}
Replacements == UNION {_generate_replacement(t) : t \in EntityTypes}

Next ==
  \/ \E mode \in Modes, generated \in Keys : NewAnonymizer(mode, generated)
  \/ \E doc_id \in Ids : ProcessStart(doc_id)
  \/ ProcessPara
  \/ ProcessEntitySkip
  \/ \E replacement \in Replacements, entity_id \in Ids :
       ProcessEntityReplace(replacement, entity_id)
  \/ \E entity_id \in Ids : ProcessEntityEncrypt(entity_id)
  \/ ProcessEntityBlur
  \/ ProcessParaEnd
  \/ ProcessFinish
  \/ DecryptDocument

Spec == Init /\ [][Next]_vars

\* ------------------------------------------------ one-paragraph documents
\* The same program on a document of one paragraph of at most MaxLineLen
\* characters: long enough for a paragraph whose words are more than one
\* space apart.
Lines == {<<str>> : str \in UNION {[1..n -> DocChars] : n \in 0..MaxLineLen}}

InitLine ==
  /\ doc \in Lines
  /\ model_path \in BOOLEAN
  /\ key_file = NoKey
  /\ documents = {}
  /\ encrypted_data = {}
  /\ replacements = {}
  /\ anon = NoAnon
  /\ pc = "idle"
  /\ call = NoCall
  /\ output = NoDoc
  /\ output_mode = "none"
  /\ decrypted = NoDoc
  /\ result = "none"
  /\ calls = 0
  /\ nlp = NoNlp
  /\ managers = NoManagers

SpecLine == InitLine /\ [][Next]_vars

\* ------------------------------------------- _extract_with_nlp on its own
\* The token loop run one token at a time on any token and label sequences of
\* at most MaxTokens tokens: words, a sub-word continuation and a special
\* token, labelled O, B-ORG, I-ORG or I-CASE.
NlpTokens    == {<<"[SEP]">>, <<"a", "a", "a">>, <<"1", "1", "1">>, <<"##", "1">>}
NlpRunLabels == {<<"O">>, <<"B", "ORG">>, <<"I", "ORG">>, <<"I", "CASE">>}

\* the text the tokens are the tokens of, up to white space
TextOf(tokens) ==
  _tokens_to_text(SelectSeq(tokens, LAMBDA token : token \notin SpecialTokens))

InitNlp ==
  /\ doc = <<(<<>>)>>
  /\ model_path = TRUE
  /\ key_file = NoKey
  /\ documents = {}
  /\ encrypted_data = {}
  /\ replacements = {}
  /\ anon = NoAnon
  /\ pc = "idle"
  /\ call = NoCall
  /\ output = NoDoc
  /\ output_mode = "none"
  /\ decrypted = NoDoc
  /\ result = "none"
  /\ calls = 0
  /\ managers = NoManagers
  /\ \E n \in 0..MaxTokens :
       \E tokens \in [1..n -> NlpTokens], labels \in [1..n -> NlpRunLabels] :
         nlp = [text |-> TextOf(tokens), tokens |-> tokens, labels |-> labels, i |-> 0,
                st |-> NoRun, entities |-> <<>>, returned |-> FALSE]

\* lines 276-308: the loop body on the token at index i
ExtractToken ==
  /\ ~nlp.returned
  /\ nlp.i < Len(nlp.tokens)
  /\ nlp' = [nlp EXCEPT !.st = NlpStep(nlp.st, nlp.i, nlp.tokens[nlp.i + 1],
                                       nlp.labels[nlp.i + 1]),
                        !.i = @ + 1]
  /\ UNCHANGED <<managers, doc, model_path, key_file, documents, encrypted_data, replacements, anon,
                 pc, call, output, output_mode, decrypted, result, calls>>

\* lines 310-325: the run still open is closed, the offsets are added
ExtractReturn ==
  /\ ~nlp.returned
  /\ nlp.i = Len(nlp.tokens)
  /\ LET es == CloseRun(nlp.st, Len(nlp.tokens))
     IN nlp' = [nlp EXCEPT !.st.entities = es,
                           !.entities = [k \in 1..Len(es) |-> WithCharOffsets(es[k], nlp.text)],
                           !.returned = TRUE]
  /\ UNCHANGED <<managers, doc, model_path, key_file, documents, encrypted_data, replacements, anon,
                 pc, call, output, output_mode, decrypted, result, calls>>

NextNlp == ExtractToken \/ ExtractReturn

SpecNlp == InitNlp /\ [][NextNlp]_vars

\* ------------------------------------ EncryptionManager() side by side
\* MaxManagers processes of the program construct their EncryptionManager
\* over the same encryption.key, none there at the start; each runs lines
\* 81-94 one file operation at a time, in any interleaving.  The code takes
\* no lock and writes the file in place.
Managers  == 1..MaxManagers
EmptyFile == "empty"

NewManager == [pc |-> "init", key |-> NoKey, generated |-> NoKey]

\* the keys some manager holds or the file stores
HeldKeys == {key_file} \cup {managers[m].key : m \in DOMAIN managers}

InitKeys ==
  /\ doc = <<(<<>>)>>
  /\ model_path = FALSE
  /\ key_file = NoKey
  /\ documents = {}
  /\ encrypted_data = {}
  /\ replacements = {}
  /\ anon = NoAnon
  /\ pc = "idle"
  /\ call = NoCall
  /\ output = NoDoc
  /\ output_mode = "none"
  /\ decrypted = NoDoc
  /\ result = "none"
  /\ calls = 0
  /\ nlp = NoNlp
  /\ managers = [m \in Managers |-> NewManager]

KeysUnchanged ==
  UNCHANGED <<doc, model_path, documents, encrypted_data, replacements, anon, pc, call, output,
              output_mode, decrypted, result, calls, nlp>>

\* lines 81-83: __init__ is entered, self.key_file is set, load_or_generate_key
\* is called
KeyInit(m) ==
  /\ managers[m].pc = "init"
  /\ managers' = [managers EXCEPT ![m].pc = "exists"]
  /\ UNCHANGED key_file
  /\ KeysUnchanged

\* line 87: os.path.exists(self.key_file)
KeyExists(m) ==
  /\ managers[m].pc = "exists"
  /\ managers' = [managers EXCEPT ![m].pc = IF key_file # NoKey THEN "open_read"
                                            ELSE "generate"]
  /\ UNCHANGED key_file
  /\ KeysUnchanged

\* line 88: open(self.key_file, 'rb'); the file is there, no step removes it
KeyOpenRead(m) ==
  /\ managers[m].pc = "open_read"
  /\ managers' = [managers EXCEPT ![m].pc = "read"]
  /\ UNCHANGED key_file
  /\ KeysUnchanged

\* line 89: f.read() returns what the file holds now
KeyRead(m) ==
  /\ managers[m].pc = "read"
  /\ managers' = [managers EXCEPT ![m].key = key_file, ![m].pc = "cipher"]
  /\ UNCHANGED key_file
  /\ KeysUnchanged

\* line 91: key = Fernet.generate_key()
KeyGenerate(m, generated) ==
  /\ managers[m].pc = "generate"
  /\ generated \in generate_key(HeldKeys)
  /\ managers' = [managers EXCEPT ![m].key = generated, ![m].generated = generated,
                                  ![m].pc = "open"]
  /\ UNCHANGED key_file
  /\ KeysUnchanged

\* line 92: open(self.key_file, 'wb') creates the file or truncates it
KeyOpen(m) ==
  /\ managers[m].pc = "open"
  /\ key_file' = EmptyFile
  /\ managers' = [managers EXCEPT ![m].pc = "write"]
  /\ KeysUnchanged

\* lines 93-94: f.write(key), the file is closed, the key is returned
KeyWrite(m) ==
  /\ managers[m].pc = "write"
  /\ key_file' = managers[m].key
  /\ managers' = [managers EXCEPT ![m].pc = "cipher"]
  /\ KeysUnchanged

\* line 84: Fernet(self.key) raises ValueError on a key that is not 32 bytes
NewCipher(m) ==
  /\ managers[m].pc = "cipher"
  /\ managers' = [managers EXCEPT ![m].pc = IF managers[m].key \in Keys THEN "returned"
                                            ELSE "raised"]
  /\ UNCHANGED key_file
  /\ KeysUnchanged

NextKeys ==
  \/ \E m \in Managers : KeyInit(m)
  \/ \E m \in Managers : KeyExists(m)
  \/ \E m \in Managers : KeyOpenRead(m)
  \/ \E m \in Managers : KeyRead(m)
  \/ \E m \in Managers, generated \in Keys : KeyGenerate(m, generated)
  \/ \E m \in Managers : KeyOpen(m)
  \/ \E m \in Managers : KeyWrite(m)
  \/ \E m \in Managers : NewCipher(m)

SpecKeys == InitKeys /\ [][NextKeys]_vars

\* ------------------------------------------------------------------ claims
\* C1: processing a document in encrypt mode and then running
\* decrypt_document on the result, with the same key and the ledger intact,
\* gives back every text unit of the input exactly.
C1_RoundTrip ==
  (result = "decrypt_returned" /\ output_mode = "encrypt") => decrypted = doc

\* C2: when a text unit has two detected entities that do not overlap and
\* both are substituted, the rewritten text unit is the original with each
\* value exactly where its entity was detected:
\* T[:start1] + v1 + T[end1:start2] + v2 + T[end2:].
C2_OffsetStability ==
  (pc = "entity" /\ call.sorted_entities = <<>> /\ ~anon.use_nlp_model
     /\ Len(call.entities) = 2) =>
    LET T    == call.orig
        done == {k \in DOMAIN call.log : call.log[k].para = call.para_idx}
        v(e) == call.log[CHOOSE k \in done : call.log[k].entity = e].value
    IN \A i, j \in 1..2 :
         LET e1 == call.entities[i]
             e2 == call.entities[j]
         IN (e1.start < e2.start /\ e1.end <= e2.start /\ Cardinality(done) = 2) =>
              call.text = Slice(T, 0, e1.start) \o v(e1) \o Slice(T, e1.end, e2.start)
                            \o v(e2) \o Slice(T, e2.end, Len(T))

\* C3: a step of an encrypt-mode Anonymizer never writes a replacements row,
\* and every encrypted_data row it writes has the six columns of the table
\* and holds the entity's text in none of them: the text column is a token
\* that only the key opens.
C3_NoPlaintextInLedger ==
  [][(anon.mode = "encrypt" /\ pc = "entity" /\ call.sorted_entities # <<>>) =>
       LET original == Head(call.sorted_entities).text
       IN /\ replacements' = replacements
          /\ \A r \in encrypted_data' \ encrypted_data :
               /\ DOMAIN r = {"id", "document_id", "encrypted_text", "entity_type",
                              "position_start", "position_end"}
               /\ r.id # original
               /\ r.document_id # original
               /\ r.encrypted_text # original
               /\ decrypt(anon.key, r.encrypted_text) = original
               /\ decrypt(NoKey, r.encrypted_text) = DecryptionError]_vars

C3_Witness ==
  /\ anon.mode = "encrypt"
  /\ pc = "entity"
  /\ \E k \in DOMAIN call.log : HasId(encrypted_data, call.log[k].id)

\* C4: no step of process_document on a blur-mode Anonymizer changes the
\* replacements or the encrypted_data table, and decrypt_document on an
\* Anonymizer that is not in encrypt mode returns False, leaves every text
\* unit as it is and saves no document.
C4_BlurWritesNothing ==
  [][/\ (anon.mode = "blur" /\ pc # "idle") =>
          UNCHANGED <<replacements, encrypted_data>>
     /\ (pc = "idle" /\ pc' = "idle" /\ anon' = anon /\ result' # "none"
           /\ anon.mode \in {"replace", "blur"}) =>
          /\ result' = "decrypt_false"
          /\ UNCHANGED <<output, decrypted, replacements, encrypted_data, documents>>]_vars

C4_Witness ==
  /\ anon.mode = "blur"
  /\ output_mode = "blur"
  /\ output # doc
  /\ result = "decrypt_false"
  /\ replacements = {}
  /\ encrypted_data = {}

\* C5: in replace and encrypt modes a step of the entity loop that splices
\* the text writes exactly one mapping record, under the entity id of that
\* splice and the call's document id, and adds one to the processed counter;
\* a step that does not splice (a skipped entity) writes no record and
\* leaves the counter; so the records held under the call's entity ids are
\* as many as the splices the counter has counted since the call began.
C5_OneRecordPerSplice ==
  [][(anon.mode \in {"replace", "encrypt"} /\ pc = "entity") =>
       LET table  == IF anon.mode = "replace" THEN replacements ELSE encrypted_data
           table2 == IF anon.mode = "replace" THEN replacements' ELSE encrypted_data'
           new    == table2 \ table
           ids    == {call'.log[k].id : k \in DOMAIN call'.log}
       IN /\ IF call'.log # call.log
             THEN /\ Cardinality(new) = 1
                  /\ \A r \in new : /\ r.id = call'.log[Len(call'.log)].id
                                    /\ r.document_id = call.doc_id
                  /\ anon'.processed = anon.processed + 1
             ELSE /\ new = {}
                  /\ anon'.processed = anon.processed
                  /\ call'.text = call.text
          /\ Cardinality(ids) = Len(call'.log)
          /\ Cardinality({r \in table2 : r.id \in ids}) = Len(call'.log)]_vars

C5_Witness ==
  /\ anon.mode \in {"replace", "encrypt"}
  /\ pc = "entity"
  /\ call.sorted_entities = <<>>
  /\ Len(call.entities) = 2
  /\ Len(call.log) = 1
  /\ anon.processed = 1

C7_WriteFailureAborts ==
  [][(pc = "entity" /\ result' = "process_raised") =>
       /\ pc' = "idle"
       /\ call'.text = call.text
       /\ call'.paras = call.paras
       /\ call'.sorted_entities = call.sorted_entities
       /\ call'.log = call.log
       /\ anon'.processed = anon.processed
       /\ UNCHANGED <<output, output_mode, documents, replacements, encrypted_data>>]_vars

C7_Witness ==
  /\ result = "process_raised"
  /\ pc = "idle"
  /\ call.sorted_entities # <<>>
  /\ output = NoDoc

\* C8: no step removes or changes a mapping record: each of the two mapping
\* tables holds after a step every row it held before.
C8_RecordsOnlyGrow ==
  [][replacements \subseteq replacements' /\ encrypted_data \subseteq encrypted_data']_vars

C8_Witness ==
  /\ Cardinality(encrypted_data) >= 2
  /\ result = "decrypt_returned"

\* C9: once the key file holds a key no construction rewrites it, every
\* encrypt-mode Anonymizer holds the key of the file, and every token in the
\* ledger decrypts under it.
C9_KeyWrittenOnce ==
  [][/\ key_file # NoKey => key_file' = key_file
     /\ anon'.mode = "encrypt" => anon'.key = key_file'
     /\ \A r \in encrypted_data' : decrypt(key_file', r.encrypted_text) # DecryptionError]_vars

C9_Witness ==
  /\ pc = "idle"
  /\ output_mode = "encrypt"
  /\ anon.mode = "encrypt"
  /\ anon.conn = "open"
  /\ \E r \in encrypted_data : decrypt(anon.key, r.encrypted_text) # DecryptionError

\* C10: every entity find_entities_by_patterns returns for a text is a match
\* of a pattern of its category, with the matched text, that has no
\* alphanumeric character right before its start or at its end.
C10_BoundaryRejection ==
  (pc # "idle" /\ ~anon.use_nlp_model) =>
    \A i \in DOMAIN call.entities :
      LET e == call.entities[i]
          T == call.orig
      IN /\ \E k \in DOMAIN patterns :
              /\ patterns[k].type = e.type
              /\ \E m \in DOMAIN FindIter(patterns[k], T, 0) :
                   FindIter(patterns[k], T, 0)[m] = <<e.start, e.end>>
         /\ e.text = Slice(T, e.start, e.end)
         /\ e.start = 0 \/ ~IsAlnum(At(T, e.start - 1))
         /\ e.end = Len(T) \/ ~IsAlnum(At(T, e.end))

C10_Witness ==
  /\ pc # "idle"
  /\ ~anon.use_nlp_model
  /\ call.orig # <<>>
  /\ \E k \in DOMAIN patterns :
       \E m \in DOMAIN FindIter(patterns[k], call.orig, 0) :
         LET sp == FindIter(patterns[k], call.orig, 0)[m]
         IN \/ sp[1] > 0 /\ IsAlnum(At(call.orig, sp[1] - 1))
            \/ sp[2] < Len(call.orig) /\ IsAlnum(At(call.orig, sp[2]))

\* C11: in blur mode every mask is as long as the span it replaces, so that
\* when a text unit is done it is as long as the original and every
\* character outside the spans of the detected entities is the original one.
C11_BlurKeepsLength ==
  (anon.mode = "blur" /\ pc = "entity" /\ call.sorted_entities = <<>>) =>
    LET T        == call.orig
        lo(e)    == IF "start_char" \in DOMAIN e THEN e.start_char ELSE e.start
        hi(e)    == IF "start_char" \in DOMAIN e THEN e.end_char ELSE e.end
        inside(i) == \E k \in DOMAIN call.entities :
                       lo(call.entities[k]) <= i /\ i < hi(call.entities[k])
    IN /\ \A k \in DOMAIN call.log :
            Len(call.log[k].value) = call.log[k].end_pos - call.log[k].pos
       /\ Len(call.text) = Len(T)
       /\ \A i \in 0..(Len(T) - 1) : ~inside(i) => At(call.text, i) = At(T, i)

\* C12: for an entity whose category is none of the seven registered ones,
\* _generate_replacement returns the bracketed category, and the replace-mode
\* step for that entity, unless its ledger write fails, writes the mapping
\* record with that value, splices it in, counts the entity and leaves the
\* loop running on the entities that remain.
C12_UnknownCategoryPlaceholder ==
  [][(anon.mode = "replace" /\ pc = "entity" /\ call.sorted_entities # <<>>
        /\ Head(call.sorted_entities).type
             \notin {"PER", "ADDR", "DATE", "PASS", "INN", "PHONE", "CASE"}) =>
       LET e   == Head(call.sorted_entities)
           v   == <<"[", e.type, "]">>
           pos == EntityPos(e, call.text)
           end_pos == EntityEnd(e, call.text)
       IN \/ pos = -1
          \/ result' = "process_raised"
          \/ /\ call'.text = Splice(call.text, pos, end_pos, v)
             /\ \E r \in replacements' \ replacements :
                  /\ r.replacement_text = v
                  /\ r.original_text = e.text
                  /\ r.entity_type = e.type
             /\ anon'.processed = anon.processed + 1
             /\ call'.sorted_entities = Tail(call.sorted_entities)
             /\ pc' = "entity"]_vars

C12_Witness ==
  /\ anon.mode = "replace"
  /\ pc = "entity"
  /\ \E k \in DOMAIN call.log :
       /\ call.log[k].value = <<"[", "ORG", "]">>
       /\ \E r \in replacements :
            r.id = call.log[k].id /\ r.replacement_text = <<"[", "ORG", "]">>

\* C13: within one text unit the entities are spliced in non-increasing
\* order of their detected start: no entity is spliced before one whose
\* detected start is greater.
C13_DescendingStart ==
  \A k, m \in DOMAIN call.log :
    (k < m /\ call.log[k].para = call.log[m].para) =>
      call.log[k].entity.start >= call.log[m].entity.start

\* C14: in _extract_with_nlp an open run of category X is closed by the next
\* token (special tokens aside) labelled O, B-anything or I-Y with Y other
\* than X: after that token the run's tokens are no longer the current
\* entity, and the entities emitted are those before plus, if valid, the
\* entity built from exactly the run's tokens.
C14_RunClosedOnLabelChange ==
  [][(~nlp.returned /\ nlp.i < Len(nlp.tokens) /\ nlp.st.current_entity # <<>>
        /\ nlp.tokens[nlp.i + 1] \notin SpecialTokens
        /\ nlp.labels[nlp.i + 1] # <<"I", nlp.st.current_type>>) =>
       LET run   == nlp.st.current_entity
           text  == _tokens_to_text(run)
           token == nlp.tokens[nlp.i + 1]
       IN /\ nlp'.st.current_entity \in {<<>>, <<token>>}
          /\ \/ nlp'.st.entities = nlp.st.entities
             \/ /\ Len(nlp'.st.entities) = Len(nlp.st.entities) + 1
                /\ nlp'.st.entities[Len(nlp'.st.entities)].text = text]_vars

\* C15: an entity whose text does not occur in the current text of its text
\* unit is skipped: the step that handles it leaves the text, both mapping
\* tables and the processed counter as they are and goes on with the
\* entities that remain.
C15_NotFoundIsSkipped ==
  [][(pc = "entity" /\ call.sorted_entities # <<>>
        /\ Find(call.text, Head(call.sorted_entities).text) = -1) =>
       /\ call'.text = call.text
       /\ UNCHANGED <<replacements, encrypted_data>>
       /\ anon'.processed = anon.processed
       /\ call'.sorted_entities = Tail(call.sorted_entities)
       /\ pc' = "entity"]_vars

\* C16: the start and end stored in the mapping record of a spliced entity
\* are the offsets at which the entity was detected in the original text
\* unit, whatever was rewritten in the text unit before it.
C16_StoredOffsetsAreOriginal ==
  (pc = "entity" /\ ~anon.use_nlp_model /\ anon.mode \in {"replace", "encrypt"}) =>
    LET table == IF anon.mode = "replace" THEN replacements ELSE encrypted_data
    IN \A k \in DOMAIN call.log : \A r \in table :
         r.id = call.log[k].id =>
           /\ r.position_start = call.log[k].entity.start
           /\ r.position_end = call.log[k].entity.end

\* C17: every splice of process_document, under either strategy, replaces a
\* span [start, end) of the current text unit with
\* 0 <= start < end <= len(text unit).
C17_SpliceSpanValid ==
  [][(pc = "entity" /\ call'.log # call.log) =>
       LET l == call'.log[Len(call'.log)]
       IN 0 <= l.pos /\ l.pos < l.end_pos /\ l.end_pos <= Len(call.text)]_vars

\* C18: every ledger operation runs on an open connection: the mapping write
\* of an entity step, the document write at the end of process_document and
\* the mapping lookup of decrypt_document for a placeholder are only ever
\* invoked while the Anonymizer's connection is open.
C18_NoOperationOnClosedStore ==
  [][(\/ /\ pc = "entity"
         /\ call.sorted_entities # <<>>
         /\ anon.mode \in {"replace", "encrypt"}
         /\ EntityPos(Head(call.sorted_entities), call.text) # -1
      \/ /\ pc = "para"
         /\ call.para_idx > Len(call.paras)
      \/ /\ pc = "idle"
         /\ anon' = anon
         /\ result' \in {"decrypt_returned", "decrypt_raised"}
         /\ \E i \in DOMAIN output : ScanPlaceholders(output[i], 0) # <<>>) =>
       anon.conn = "open"]_vars

\* C19: in encrypt mode every placeholder in the text unit being rewritten
\* has a mapping record under its id, and the ciphertext of the record of
\* every splice decrypts to exactly the text that splice replaced.
C19_PlaceholderHasRecord ==
  (pc = "entity" /\ anon.mode = "encrypt") =>
    /\ \A j \in DOMAIN ScanPlaceholders(call.text, 0) :
         HasId(encrypted_data, ScanPlaceholders(call.text, 0)[j])
    /\ \A k \in DOMAIN call.log :
         \E r \in encrypted_data :
           /\ r.id = call.log[k].id
           /\ decrypt(anon.key, r.encrypted_text) = call.log[k].replaced

\* C20: every mapping record references a document record that exists: in
\* every state, each row of replacements and of encrypted_data has its
\* document_id among the ids of the rows of documents.
C20_MappingHasDocument ==
  /\ \A r \in replacements : HasId(documents, r.document_id)
  /\ \A r \in encrypted_data : HasId(documents, r.document_id)

\* C21: when EncryptionManager() calls interleave with no key file there,
\* exactly one key is generated and persisted and every manager ends up
\* holding the key the key file stores: once all the calls are over, one of
\* them has generated a key, all of them have returned, and the key of each
\* is the content of the key file.
C21_OneKeyForAll ==
  (managers # NoManagers /\ \A m \in Managers : managers[m].pc \in {"returned", "raised"}) =>
    /\ Cardinality({m \in Managers : managers[m].generated # NoKey}) = 1
    /\ \A m \in Managers : managers[m].pc = "returned" /\ managers[m].key = key_file

\* C22: all through process_document processed <= found; found grows by the
\* number of entities the detector returned for a text unit that is not
\* blank, at the step that detects them and at no other step, whether or not
\* the entities are skipped later; processed grows by one at a step that
\* splices and stays as it is at every other step.
C22_CountersFollowWork ==
  [][(pc \in {"para", "entity"}) =>
       LET detecting == /\ pc = "para"
                        /\ call.para_idx <= Len(call.paras)
                        /\ ~IsBlank(call.paras[call.para_idx])
           splicing  == Len(call'.log) = Len(call.log) + 1
       IN /\ anon.processed <= anon.found
          /\ anon'.processed <= anon'.found
          /\ detecting =>
               call'.entities \in extract_entities(anon.use_nlp_model,
                                                   call.paras[call.para_idx])
          /\ anon'.found = anon.found + (IF detecting THEN Len(call'.entities) ELSE 0)
          /\ anon'.processed = anon.processed + (IF splicing THEN 1 ELSE 0)]_vars

\* an entity was skipped and another spliced: the counters differ
C22_Witness ==
  /\ pc = "entity"
  /\ call.sorted_entities = <<>>
  /\ anon.processed >= 1
  /\ anon.found > anon.processed
====
